---- MODULE Spec2Model ----
(***************************************************************************)
(* Clamped numeric attributes of nwest-shared-component-library:           *)
(* DecimalAttribute (src/src/decimal_attribute.rs) and IntegerAttribute    *)
(* (src/src/integer_attribute.rs).  One attribute value is followed        *)
(* through its constructors, setters and arithmetic operators.             *)
(*                                                                         *)
(* f64 values are modelled as exact normalised fractions <<n, d>>, d > 0,  *)
(* drawn from finite ordinary numbers (no NaN, no infinity); i32 and u32   *)
(* keep two's-complement behaviour at a reduced width of IntBits bits.     *)
(***************************************************************************)
EXTENDS Integers, Sequences, FiniteSets, TLC

\* ------------------------------------------------------------------ bounds
\* width in bits of the modelled i32 / u32
IntBits == 3
\* decimal inputs are the whole numbers -DecMax .. DecMax
DecMax == 2
\* largest denominator a stored decimal may have
MaxDen == 2

\* ---------------------------------------------------------- machine integers
I32_MAX == 2^(IntBits - 1) - 1
I32_MIN == -(2^(IntBits - 1))
U32_MAX == 2^IntBits - 1
I32 == I32_MIN..I32_MAX
U32 == 0..U32_MAX

InI32(x) == I32_MIN <= x /\ x <= I32_MAX

\* two's-complement wrap of an unbounded integer into i32 (release builds)
WrapI32(x) == ((x - I32_MIN) % (2^IntBits)) + I32_MIN

\* `rhs as i32` for a u32 rhs
U32AsI32(x) == WrapI32(x)

\* `i32::MAX as u32`
I32MaxAsU32 == I32_MAX

\* Rust's `/` on i32 truncates toward zero
TruncDiv(a, b) ==
    LET na == IF a < 0 THEN -a ELSE a
        nb == IF b < 0 THEN -b ELSE b
        q  == na \div nb
    IN  IF (a < 0) = (b < 0) THEN q ELSE -q

\* i32::clamp (Ord::clamp): assert!(min <= max), then pin
IClampPanics(min, max) == min > max
IClamp(x, min, max) == IF x < min THEN min ELSE IF x > max THEN max ELSE x

\* ------------------------------------------------------------ f64 as fractions
Abs(x) == IF x < 0 THEN -x ELSE x

RECURSIVE GCD(_, _)
GCD(a, b) == IF b = 0 THEN a ELSE GCD(b, a % b)

Rat(n, d) ==
    LET s == IF d < 0 THEN -1 ELSE 1
        g == GCD(Abs(n), Abs(d))
    IN  <<(s * n) \div g, (s * d) \div g>>

FZero == <<0, 1>>
FInt(n) == <<n, 1>>

FAdd(a, b) == Rat(a[1] * b[2] + b[1] * a[2], a[2] * b[2])
FSub(a, b) == Rat(a[1] * b[2] - b[1] * a[2], a[2] * b[2])
FMul(a, b) == Rat(a[1] * b[1], a[2] * b[2])
FDiv(a, b) == Rat(a[1] * b[2], a[2] * b[1])
FNeg(a)    == <<-a[1], a[2]>>
FLt(a, b)  == a[1] * b[2] < b[1] * a[2]
FLe(a, b)  == a[1] * b[2] <= b[1] * a[2]
FGt(a, b)  == FLt(b, a)
FIsZero(a) == a[1] = 0

\* f64 `%`: the remainder has the sign of the dividend (fmod)
FRem(a, b) ==
    LET q == FDiv(a, b)
        t == IF q[1] >= 0 THEN q[1] \div q[2] ELSE -((-q[1]) \div q[2])
    IN  FSub(a, FMul(b, FInt(t)))

\* f64::max / f64::min
FMax(a, b) == IF FLt(a, b) THEN b ELSE a
FMin(a, b) == IF FLt(b, a) THEN b ELSE a

\* f64::clamp: assert!(min <= max), then pin
FClampPanics(min, max) == ~FLe(min, max)
FClamp(x, min, max) == IF FLt(x, min) THEN min ELSE IF FGt(x, max) THEN max ELSE x

\* `rhs as f64` for an f32 rhs: widening is exact
F32AsF64(x) == x

\* values a stored f64 may take in the model
Storable(x) == x[2] <= MaxDen

DecInputs == {FInt(n) : n \in (-DecMax)..DecMax}

\* ------------------------------------------------------------------ results
Attr(c, mn, mx) == [current |-> c, min |-> mn, max |-> mx]

Ok(a)          == [status |-> "ok", attr |-> a, err |-> <<>>]
Err(self, e)   == [status |-> "err", attr |-> self, err |-> e]
Panicked(self) == [status |-> "panic", attr |-> self, err |-> <<>>]

\* the value a call returns besides an attribute: none
NoRet == <<>>

\* ------------------------------------------------- DecimalAttribute (pure part)
\* #[derive(Default)]: every field 0.0
Decimal_default == Attr(FZero, FZero, FZero)

Decimal_new(value) == Ok(Attr(value, FZero, value))

\* variant of as_defined with its two checks in the other order
Decimal_as_defined_Swapped(value, min, max) ==
    IF FLt(max, min)
    THEN Err(Decimal_default, <<"DecimalMaxLessThanMin", max, min>>)
    ELSE IF FGt(min, max)
    THEN Err(Decimal_default, <<"DecimalMinGreaterThanMax", min, max>>)
    ELSE Ok(Attr(value, min, max))

Decimal_as_defined(value, min, max) ==
    IF FGt(min, max)
    THEN Err(Decimal_default, <<"DecimalMinGreaterThanMax", min, max>>)
    ELSE IF FLt(max, min)
    THEN Err(Decimal_default, <<"DecimalMaxLessThanMin", max, min>>)
    ELSE Ok(Attr(value, min, max))

Decimal_with_min_max_and_current(value, min, max) == Decimal_as_defined(value, min, max)

Decimal_with_min_and_max(min, max) == Decimal_as_defined(max, min, max)

Decimal_set_min(self, min) ==
    IF FGt(min, self.max)
    THEN Err(self, <<"DecimalMinGreaterThanMax", min, self.max>>)
    ELSE Ok(Attr(FMax(self.current, min), min, self.max))

Decimal_set_max(self, max) ==
    IF FLt(max, self.min)
    THEN Err(self, <<"DecimalMaxLessThanMin", max, self.min>>)
    ELSE Ok(Attr(FMin(self.current, max), self.min, max))

\* variant of set_min_max that writes the bounds before it validates them
Decimal_set_min_max_WritesFirst(self, min, max) ==
    IF FGt(min, max)
    THEN Err(Attr(self.current, min, max), <<"DecimalMinGreaterThanMax", min, max>>)
    ELSE Ok(Attr(FClamp(self.current, min, max), min, max))

\* variant of set_min_max written as set_min followed by set_max
Decimal_set_min_max_Chained(self, min, max) ==
    LET r == Decimal_set_min(self, min)
    IN  IF r.status = "err" THEN r ELSE Decimal_set_max(r.attr, max)

Decimal_set_min_max(self, min, max) ==
    IF FGt(min, max)
    THEN Err(self, <<"DecimalMinGreaterThanMax", min, max>>)
    ELSE IF FLt(max, min)
    THEN Err(self, <<"DecimalMaxLessThanMin", max, min>>)
    ELSE IF FClampPanics(min, max)
    THEN Panicked(self)
    ELSE Ok(Attr(FClamp(self.current, min, max), min, max))

\* the shared tail of every value write: `x.clamp(self.min, self.max)` stored in current
DecimalStore(self, x) ==
    IF FClampPanics(self.min, self.max)
    THEN Panicked(self)
    ELSE Ok(Attr(FClamp(x, self.min, self.max), self.min, self.max))

\* variant of set_current that adds to the stored value instead of replacing it
Decimal_set_current_Adds(self, current) == DecimalStore(self, FAdd(self.current, current))

Decimal_set_current(self, current) == DecimalStore(self, current)

Decimal_set_value(self, value) == Decimal_set_current(self, value)

Decimal_add(self, rhs) == DecimalStore(self, FAdd(self.current, rhs))

Decimal_sub(self, rhs) == DecimalStore(self, FSub(self.current, rhs))

Decimal_mul(self, rhs) == DecimalStore(self, FMul(self.current, rhs))

Decimal_div(self, rhs) ==
    IF FIsZero(rhs) THEN Ok(self) ELSE DecimalStore(self, FDiv(self.current, rhs))

Decimal_rem(self, rhs) ==
    IF FIsZero(rhs) THEN Ok(self) ELSE DecimalStore(self, FRem(self.current, rhs))

\* variant of current_percentage that does not shift by min: current / max
Decimal_current_percentage_NoShift(self) ==
    IF FIsZero(self.max) THEN FZero ELSE FDiv(self.current, self.max)

Decimal_current_percentage(self) ==
    LET current == FSub(self.current, self.min)
        max == FSub(self.max, self.min)
    IN  IF FIsZero(max) THEN FZero ELSE FDiv(current, max)

\* n / d (d > 0) rounded to the nearest integer, ties to the even one
RoundHalfEven(n, d) ==
    LET q == n \div d
        r == n - q * d
    IN  IF 2 * r < d THEN q
        ELSE IF 2 * r > d THEN q + 1
        ELSE IF q % 2 = 0 THEN q ELSE q + 1

\* `{:.2}` of a finite float: the decimal string with two fraction digits, given
\* as the number of hundredths it spells
Fixed2(x) == <<"num", RoundHalfEven(x[1] * 100, x[2])>>

\* Display: the text "<current> (<percentage>%)" as the pair of its two numerals
Decimal_display(self) ==
    <<Fixed2(self.current), Fixed2(FMul(Decimal_current_percentage(self), FInt(100)))>>

\* f64::EPSILON, the gap between 1.0 and the next f64, at the model's precision:
\* stored values step by 1 / MaxDen there
F64_EPSILON == Rat(1, MaxDen)

\* an f64 nearer to zero than EPSILON: f64 is denser below 1.0 than at 1.0
F64_SubEpsilon == Rat(1, 2 * MaxDen)

FAbs(a) == <<Abs(a[1]), a[2]>>

\* variant of PartialEq that also compares the bounds
Decimal_eq_WithBounds(self, other) ==
    /\ FLt(FAbs(FSub(self.current, other.current)), F64_EPSILON)
    /\ self.min = other.min
    /\ self.max = other.max

\* PartialEq for DecimalAttribute: the currents differ by less than EPSILON
Decimal_eq(self, other) == FLt(FAbs(FSub(self.current, other.current)), F64_EPSILON)

\* PartialOrd for DecimalAttribute: f64::partial_cmp of the currents (no NaN here)
Decimal_partial_cmp(self, other) ==
    IF FLt(self.current, other.current) THEN "Less"
    ELSE IF FGt(self.current, other.current) THEN "Greater"
    ELSE "Equal"

\* f64::to_bits: the bit pattern of the value, one pattern per value of the model
F64ToBits(x) == <<"bits", x[1], x[2]>>

\* Hash for DecimalAttribute: what is fed to the hasher, in order
Decimal_hash(self) == <<F64ToBits(self.current), F64ToBits(self.min), F64ToBits(self.max)>>

\* the assigning operators: `self.current = (self.current OP rhs).clamp(self.min, self.max)`
Decimal_add_assign(self, rhs) == DecimalStore(self, FAdd(self.current, rhs))

Decimal_sub_assign(self, rhs) == DecimalStore(self, FSub(self.current, rhs))

Decimal_mul_assign(self, rhs) == DecimalStore(self, FMul(self.current, rhs))

Decimal_div_assign(self, rhs) ==
    IF FIsZero(rhs) THEN Ok(self) ELSE DecimalStore(self, FDiv(self.current, rhs))

Decimal_rem_assign(self, rhs) ==
    IF FIsZero(rhs) THEN Ok(self) ELSE DecimalStore(self, FRem(self.current, rhs))

Decimal_neg(self) == DecimalStore(self, FNeg(self.current))

\* ------------------------------------------------- IntegerAttribute (pure part)
\* #[derive(Default)]: every field 0
Integer_default == Attr(0, 0, 0)

\* i32::checked_add / checked_sub / checked_mul followed by unwrap_or(fallback)
CheckedOr(x, fallback) == IF InI32(x) THEN x ELSE fallback

\* a plain `+`, `-` or `*` on i32 whose exact result is x: on overflow a build with
\* overflow checks panics and a build without them wraps
Overflowing(x) ==
    IF InI32(x)
    THEN {[panic |-> FALSE, v |-> x]}
    ELSE {[panic |-> TRUE, v |-> 0], [panic |-> FALSE, v |-> WrapI32(x)]}

Integer_new(min, max, current) ==
    IF min > max
    THEN Err(Integer_default, <<"MinGreaterThanMax", min, max>>)
    ELSE Ok(Attr(IClamp(current, min, max), min, max))

\* variant of the value write that stores x without clamping it
IntegerStore_Unclamped(self, x) == Ok(Attr(x, self.min, self.max))

\* the shared tail of every value write: `x.clamp(self.min, self.max)` stored in current
IntegerStore(self, x) ==
    IF IClampPanics(self.min, self.max)
    THEN Panicked(self)
    ELSE Ok(Attr(IClamp(x, self.min, self.max), self.min, self.max))

\* builder-style setters: take self by value and return the changed copy
Integer_set_min(self, min) ==
    LET max1 == IF self.max = 0 /\ self.min = 0 THEN min ELSE self.max
    IN  IF min > max1
        THEN Err(self, <<"MinGreaterThanMax", min, max1>>)
        ELSE IntegerStore(Attr(self.current, min, max1), self.current)

Integer_set_max(self, max) ==
    LET current1 == IF self.current = 0 THEN max ELSE self.current
    IN  IF max < self.min
        THEN Err(self, <<"MaxLessThanMin", max, self.min>>)
        ELSE IntegerStore(Attr(current1, self.min, max), current1)

Integer_set_current(self, current) == IntegerStore(self, current)

\* &mut setters
Integer_set_current_value(self, value) == IntegerStore(self, value)

Integer_set_max_value(self, value) ==
    IF value < self.min
    THEN Err(self, <<"MaxLessThanMin", value, self.min>>)
    ELSE IntegerStore(Attr(self.current, self.min, value), self.current)

Integer_set_min_value(self, value) ==
    IF value > self.max
    THEN Err(self, <<"MinGreaterThanMax", value, self.max>>)
    ELSE IntegerStore(Attr(self.current, value, self.max), self.current)

\* f32 values: a finite number (an exact fraction n / d), NaN, or an infinity of sign n
F32Num(x) == <<"num", x[1], x[2]>>
F32NaN == <<"nan", 0, 1>>
F32Inf(sign) == <<"inf", sign, 1>>

\* `a as f32 / b as f32` for i32 a and b: IEEE division, which does not trap on zero
F32Div(a, b) ==
    IF b # 0 THEN F32Num(Rat(a, b))
    ELSE IF a = 0 THEN F32NaN
    ELSE F32Inf(IF a > 0 THEN 1 ELSE -1)

\* current_percentage: the set of outcomes the builds can produce, the i32 sums and
\* differences being plain `+` and `-`
Integer_current_percentage(self) ==
    IF self.min < 0
    THEN {[panic |-> a.panic \/ b.panic, v |-> F32Div(a.v, b.v)] :
            a \in Overflowing(self.current + self.min),
            b \in Overflowing(self.max + self.min)}
    ELSE IF self.min = 0
    THEN {[panic |-> FALSE, v |-> F32Div(self.current, self.max)]}
    ELSE {[panic |-> a.panic \/ b.panic, v |-> F32Div(a.v, b.v)] :
            a \in Overflowing(self.current - self.min),
            b \in Overflowing(self.max - self.min)}

\* `{:.2}` of an f32: two fraction digits for a finite value, "NaN", "inf" or "-inf"
Fixed2F32(v) ==
    IF v[1] = "num" THEN Fixed2(<<v[2], v[3]>>)
    ELSE IF v[1] = "nan" THEN <<"NaN", 0>>
    ELSE <<"inf", v[2]>>

\* Display: `{}` of current, then `{:.2}` of current_percentage() as it is
Integer_display(self) ==
    {[panic |-> o.panic, v |-> <<<<"int", self.current>>, Fixed2F32(o.v)>>] :
        o \in Integer_current_percentage(self)}

\* PartialEq for IntegerAttribute
Integer_eq(self, other) == self.current = other.current

\* variant of Hash that feeds current only, as equality reads current only
Integer_hash_CurrentOnly(self) == <<self.current>>

\* Hash for IntegerAttribute: what is fed to the hasher, in order
Integer_hash(self) == <<self.max, self.min, self.current>>

\* `x as u32` for an i32 x: the two's complement bits read as unsigned
I32AsU32(x) == x % 2^IntBits

\* variant of the u32 conversion that also rejects a current of zero
Integer_try_from_u32_RejectsZero(attribute) ==
    IF attribute.current <= 0
    THEN [r |-> Err(attribute, <<"ConversionError",
                "Current value is negative when trying to convert to u32.">>),
          v |-> NoRet]
    ELSE [r |-> Ok(attribute), v |-> I32AsU32(attribute.current)]

\* TryFrom<IntegerAttribute> for u32: the outcome r and the u32 returned on Ok
Integer_try_from_u32(attribute) ==
    IF attribute.current < 0
    THEN [r |-> Err(attribute, <<"ConversionError",
                "Current value is negative when trying to convert to u32.">>),
          v |-> NoRet]
    ELSE [r |-> Ok(attribute), v |-> I32AsU32(attribute.current)]

\* i32 operands; each yields the set of outcomes the builds can produce
\* variant of Add<i32> that wraps on overflow (wrapping_add) instead of falling back to max
Integer_add_i32_Wrapping(self, rhs) ==
    {IntegerStore(self, WrapI32(self.current + rhs))}

Integer_add_i32(self, rhs) ==
    {IntegerStore(self, CheckedOr(self.current + rhs, self.max))}

Integer_sub_i32(self, rhs) ==
    {IntegerStore(self, CheckedOr(self.current - rhs, self.min))}

Integer_mul_i32(self, rhs) ==
    {IF o.panic THEN Panicked(self) ELSE IntegerStore(self, o.v) :
        o \in Overflowing(self.current * rhs)}

Integer_div_i32(self, rhs) ==
    IF rhs = 0 \/ (self.current = I32_MIN /\ rhs = -1)
    THEN {Panicked(self)}
    ELSE {IntegerStore(self, TruncDiv(self.current, rhs))}

\* u32 operands
Integer_add_u32(self, rhs) ==
    IF rhs > I32MaxAsU32
    THEN {Ok(Attr(self.max, self.min, self.max))}
    ELSE {IntegerStore(self, CheckedOr(self.current + U32AsI32(rhs), self.max))}

\* variant of Sub<u32> without the cast guard: every rhs goes through `rhs as i32`
Integer_sub_u32_Unguarded(self, rhs) ==
    {IF o.panic THEN Panicked(self) ELSE IntegerStore(self, o.v) :
        o \in Overflowing(self.current - U32AsI32(rhs))}

Integer_sub_u32(self, rhs) ==
    IF rhs > I32MaxAsU32
    THEN {IntegerStore(self, CheckedOr(self.current - I32_MAX, self.min))}
    ELSE {IF o.panic THEN Panicked(self) ELSE IntegerStore(self, o.v) :
            o \in Overflowing(self.current - U32AsI32(rhs))}

\* variant of Mul<u32> whose overflow fallback is max whatever the sign of current
Integer_mul_u32_FallbackMax(self, rhs) ==
    IF rhs > I32MaxAsU32
    THEN {Ok(Attr(self.max, self.min, self.max))}
    ELSE {IntegerStore(self, CheckedOr(self.current * U32AsI32(rhs), self.max))}

Integer_mul_u32(self, rhs) ==
    IF rhs > I32MaxAsU32
    THEN IF self.current < 0
         THEN {Ok(Attr(self.min, self.min, self.max))}
         ELSE IF self.current = 0
         THEN {Ok(Attr(self.current, self.min, self.max))}
         ELSE {Ok(Attr(self.max, self.min, self.max))}
    ELSE {IntegerStore(self, CheckedOr(self.current * U32AsI32(rhs),
                IF self.current < 0 THEN self.min
                ELSE IF self.current = 0 THEN 0 ELSE self.max))}

\* variant of Div<u32> that returns the attribute as it is for a zero divisor
Integer_div_u32_ZeroKeeps(self, rhs) ==
    IF rhs = 0
    THEN {Ok(self)}
    ELSE IF rhs > I32MaxAsU32
    THEN {IntegerStore(self, 0)}
    ELSE {IntegerStore(self, TruncDiv(self.current, U32AsI32(rhs)))}

Integer_div_u32(self, rhs) ==
    IF rhs = 0 \/ rhs > I32MaxAsU32
    THEN {IntegerStore(self, 0)}
    ELSE {IntegerStore(self, TruncDiv(self.current, U32AsI32(rhs)))}

\* -------------------------------------------------------------------- state
VARIABLES
    kind,   \* "dec": the value is a DecimalAttribute; "int": an IntegerAttribute
    pc,     \* the caller: "start" nothing constructed yet, "live" between calls,
            \* "called" a call has returned, "rejected" a constructor returned Err,
            \* "panicked" a call panicked
    attr,   \* the attribute the caller holds: [current, min, max]
    last    \* the call that just returned: its name, operand type, arguments, the
            \* attribute it was called on (pre), how it ended, its error, and the
            \* attribute it left (out); byval tells that out is a returned copy,
            \* attr being untouched; ret is the value a `&self` method returned

vars == <<kind, pc, attr, last>>

Default(k) == IF k = "dec" THEN Decimal_default ELSE Integer_default

Call(op, ty, args, self, r, byval) ==
    [op |-> op, ty |-> ty, args |-> args, pre |-> self,
     status |-> r.status, err |-> r.err, out |-> r.attr, byval |-> byval,
     ret |-> NoRet]

\* no call to look at
Idle(self) == Call("none", "-", <<>>, self, Ok(self), FALSE)

After(r) == IF r.status = "panic" THEN "panicked" ELSE "called"

Init ==
    /\ kind \in {"dec", "int"}
    /\ pc = "start"
    /\ attr = Default(kind)
    /\ last = Idle(Default(kind))

\* `let mut attr = T::ctor(args)?`: on Ok the caller holds the new attribute
Construct(op, args, r) ==
    /\ pc' = IF r.status = "ok" THEN "called" ELSE "rejected"
    /\ attr' = r.attr
    /\ last' = Call(op, "-", args, Default(kind), r, FALSE)
    /\ UNCHANGED kind

\* a `&mut self` call: the attribute is changed in place (not at all on Err or panic)
Mutate(op, ty, args, r) ==
    /\ kind = "dec" => Storable(r.attr.current)
    /\ pc' = After(r)
    /\ attr' = r.attr
    /\ last' = Call(op, ty, args, attr, r, FALSE)
    /\ UNCHANGED kind

\* a `self` call on the Copy type: the caller's attribute stays, a copy is returned
Return(op, ty, args, r) ==
    /\ kind = "dec" => Storable(r.attr.current)
    /\ pc' = After(r)
    /\ last' = Call(op, ty, args, attr, r, TRUE)
    /\ UNCHANGED <<kind, attr>>

\* a `&self` method: the attribute stays as it is and the value v comes back
ObserveWith(op, args, r, v) ==
    /\ pc' = After(r)
    /\ last' = [Call(op, "-", args, attr, r, FALSE) EXCEPT !.ret = v]
    /\ UNCHANGED <<kind, attr>>

Observe(op, r, v) == ObserveWith(op, <<>>, r, v)

\* `let attribute = attribute.set_min(10).unwrap();`: the caller keeps the returned copy
Rebind ==
    /\ pc = "called"
    /\ last.byval
    /\ last.status = "ok"
    /\ pc' = "live"
    /\ attr' = last.out
    /\ last' = Idle(last.out)
    /\ UNCHANGED kind

\* the caller is done with the result and goes on to its next call
Continue ==
    /\ pc = "called"
    /\ pc' = "live"
    /\ last' = Idle(attr)
    /\ UNCHANGED <<kind, attr>>

\* ------------------------------------------------------ DecimalAttribute actions
DecimalDefault ==
    /\ kind = "dec"
    /\ pc = "start"
    /\ Construct("default", <<>>, Ok(Decimal_default))

DecimalNew ==
    /\ kind = "dec"
    /\ pc = "start"
    /\ \E value \in DecInputs :
        Construct("new", <<value>>, Decimal_new(value))

DecimalAsDefined ==
    /\ kind = "dec"
    /\ pc = "start"
    /\ \E value \in DecInputs, min \in DecInputs, max \in DecInputs :
        Construct("as_defined", <<value, min, max>>, Decimal_as_defined(value, min, max))

DecimalWithMinMaxAndCurrent ==
    /\ kind = "dec"
    /\ pc = "start"
    /\ \E value \in DecInputs, min \in DecInputs, max \in DecInputs :
        Construct("with_min_max_and_current", <<value, min, max>>,
                  Decimal_with_min_max_and_current(value, min, max))

DecimalWithMinAndMax ==
    /\ kind = "dec"
    /\ pc = "start"
    /\ \E min \in DecInputs, max \in DecInputs :
        Construct("with_min_and_max", <<min, max>>, Decimal_with_min_and_max(min, max))

DecimalSetMin ==
    /\ kind = "dec"
    /\ pc = "live"
    /\ \E min \in DecInputs : Mutate("set_min", "-", <<min>>, Decimal_set_min(attr, min))

DecimalSetMax ==
    /\ kind = "dec"
    /\ pc = "live"
    /\ \E max \in DecInputs : Mutate("set_max", "-", <<max>>, Decimal_set_max(attr, max))

DecimalSetMinMax ==
    /\ kind = "dec"
    /\ pc = "live"
    /\ \E min \in DecInputs, max \in DecInputs :
        Mutate("set_min_max", "-", <<min, max>>, Decimal_set_min_max(attr, min, max))

DecimalSetCurrent ==
    /\ kind = "dec"
    /\ pc = "live"
    /\ \E current \in DecInputs :
        Mutate("set_current", "-", <<current>>, Decimal_set_current(attr, current))

DecimalSetValue ==
    /\ kind = "dec"
    /\ pc = "live"
    /\ \E value \in DecInputs :
        Mutate("set_value", "-", <<value>>, Decimal_set_value(attr, value))

\* the operand types of the Decimal operators and the conversion each impl applies
DecOperandTypes == {"f64", "f32"}
DecOperand(ty, rhs) == IF ty = "f32" THEN F32AsF64(rhs) ELSE rhs

DecimalAdd ==
    /\ kind = "dec"
    /\ pc = "live"
    /\ \E ty \in DecOperandTypes, rhs \in DecInputs :
        Return("add", ty, <<rhs>>, Decimal_add(attr, DecOperand(ty, rhs)))

DecimalAddAssign ==
    /\ kind = "dec"
    /\ pc = "live"
    /\ \E ty \in DecOperandTypes, rhs \in DecInputs :
        Mutate("add_assign", ty, <<rhs>>, Decimal_add_assign(attr, DecOperand(ty, rhs)))

DecimalSub ==
    /\ kind = "dec"
    /\ pc = "live"
    /\ \E ty \in DecOperandTypes, rhs \in DecInputs :
        Return("sub", ty, <<rhs>>, Decimal_sub(attr, DecOperand(ty, rhs)))

DecimalSubAssign ==
    /\ kind = "dec"
    /\ pc = "live"
    /\ \E ty \in DecOperandTypes, rhs \in DecInputs :
        Mutate("sub_assign", ty, <<rhs>>, Decimal_sub_assign(attr, DecOperand(ty, rhs)))

DecimalMul ==
    /\ kind = "dec"
    /\ pc = "live"
    /\ \E ty \in DecOperandTypes, rhs \in DecInputs :
        Return("mul", ty, <<rhs>>, Decimal_mul(attr, DecOperand(ty, rhs)))

DecimalMulAssign ==
    /\ kind = "dec"
    /\ pc = "live"
    /\ \E ty \in DecOperandTypes, rhs \in DecInputs :
        Mutate("mul_assign", ty, <<rhs>>, Decimal_mul_assign(attr, DecOperand(ty, rhs)))

DecimalDiv ==
    /\ kind = "dec"
    /\ pc = "live"
    /\ \E ty \in DecOperandTypes, rhs \in DecInputs :
        Return("div", ty, <<rhs>>, Decimal_div(attr, DecOperand(ty, rhs)))

DecimalDivAssign ==
    /\ kind = "dec"
    /\ pc = "live"
    /\ \E ty \in DecOperandTypes, rhs \in DecInputs :
        Mutate("div_assign", ty, <<rhs>>, Decimal_div_assign(attr, DecOperand(ty, rhs)))

DecimalRem ==
    /\ kind = "dec"
    /\ pc = "live"
    /\ \E ty \in DecOperandTypes, rhs \in DecInputs :
        Return("rem", ty, <<rhs>>, Decimal_rem(attr, DecOperand(ty, rhs)))

DecimalRemAssign ==
    /\ kind = "dec"
    /\ pc = "live"
    /\ \E ty \in DecOperandTypes, rhs \in DecInputs :
        Mutate("rem_assign", ty, <<rhs>>, Decimal_rem_assign(attr, DecOperand(ty, rhs)))

DecimalNeg ==
    /\ kind = "dec"
    /\ pc = "live"
    /\ Return("neg", "-", <<>>, Decimal_neg(attr))

DecimalCurrentPercentage ==
    /\ kind = "dec"
    /\ pc = "live"
    /\ Observe("current_percentage", Ok(attr), Decimal_current_percentage(attr))

DecimalDisplay ==
    /\ kind = "dec"
    /\ pc = "live"
    /\ Observe("display", Ok(attr), Decimal_display(attr))

\* the attributes another DecimalAttribute may be: as_defined over the extreme
\* bounds and over currents on and between the stored steps
DecOthers ==
    {Decimal_as_defined(v, mn, mx).attr :
        v \in DecInputs \cup {FAdd(x, F64_SubEpsilon) : x \in DecInputs},
        mn \in {FInt(-DecMax), FZero}, mx \in {FZero, FInt(DecMax)}}

DecimalEq ==
    /\ kind = "dec"
    /\ pc = "live"
    /\ \E other \in DecOthers :
        ObserveWith("eq", <<other>>, Ok(attr), Decimal_eq(attr, other))

DecimalPartialCmp ==
    /\ kind = "dec"
    /\ pc = "live"
    /\ \E other \in DecOthers :
        ObserveWith("partial_cmp", <<other>>, Ok(attr), Decimal_partial_cmp(attr, other))

DecimalHash ==
    /\ kind = "dec"
    /\ pc = "live"
    /\ Observe("hash", Ok(attr), Decimal_hash(attr))

\* ------------------------------------------------------ IntegerAttribute actions
IntegerDefault ==
    /\ kind = "int"
    /\ pc = "start"
    /\ Construct("default", <<>>, Ok(Integer_default))

IntegerNew ==
    /\ kind = "int"
    /\ pc = "start"
    /\ \E min \in I32, max \in I32, current \in I32 :
        Construct("new", <<min, max, current>>, Integer_new(min, max, current))

IntegerSetMin ==
    /\ kind = "int"
    /\ pc = "live"
    /\ \E min \in I32 : Return("set_min", "-", <<min>>, Integer_set_min(attr, min))

IntegerSetMax ==
    /\ kind = "int"
    /\ pc = "live"
    /\ \E max \in I32 : Return("set_max", "-", <<max>>, Integer_set_max(attr, max))

IntegerSetCurrent ==
    /\ kind = "int"
    /\ pc = "live"
    /\ \E current \in I32 :
        Return("set_current", "-", <<current>>, Integer_set_current(attr, current))

IntegerSetCurrentValue ==
    /\ kind = "int"
    /\ pc = "live"
    /\ \E value \in I32 :
        Mutate("set_current_value", "-", <<value>>, Integer_set_current_value(attr, value))

IntegerSetMaxValue ==
    /\ kind = "int"
    /\ pc = "live"
    /\ \E value \in I32 :
        Mutate("set_max_value", "-", <<value>>, Integer_set_max_value(attr, value))

IntegerSetMinValue ==
    /\ kind = "int"
    /\ pc = "live"
    /\ \E value \in I32 :
        Mutate("set_min_value", "-", <<value>>, Integer_set_min_value(attr, value))

IntegerAddI32 ==
    /\ kind = "int"
    /\ pc = "live"
    /\ \E rhs \in I32 : \E r \in Integer_add_i32(attr, rhs) : Return("add", "i32", <<rhs>>, r)

IntegerAddAssignI32 ==
    /\ kind = "int"
    /\ pc = "live"
    /\ \E rhs \in I32 : \E r \in Integer_add_i32(attr, rhs) :
        Mutate("add_assign", "i32", <<rhs>>, r)

IntegerSubI32 ==
    /\ kind = "int"
    /\ pc = "live"
    /\ \E rhs \in I32 : \E r \in Integer_sub_i32(attr, rhs) : Return("sub", "i32", <<rhs>>, r)

IntegerSubAssignI32 ==
    /\ kind = "int"
    /\ pc = "live"
    /\ \E rhs \in I32 : \E r \in Integer_sub_i32(attr, rhs) :
        Mutate("sub_assign", "i32", <<rhs>>, r)

IntegerMulI32 ==
    /\ kind = "int"
    /\ pc = "live"
    /\ \E rhs \in I32 : \E r \in Integer_mul_i32(attr, rhs) : Return("mul", "i32", <<rhs>>, r)

IntegerMulAssignI32 ==
    /\ kind = "int"
    /\ pc = "live"
    /\ \E rhs \in I32 : \E r \in Integer_mul_i32(attr, rhs) :
        Mutate("mul_assign", "i32", <<rhs>>, r)

IntegerDivI32 ==
    /\ kind = "int"
    /\ pc = "live"
    /\ \E rhs \in I32 : \E r \in Integer_div_i32(attr, rhs) : Return("div", "i32", <<rhs>>, r)

IntegerDivAssignI32 ==
    /\ kind = "int"
    /\ pc = "live"
    /\ \E rhs \in I32 : \E r \in Integer_div_i32(attr, rhs) :
        Mutate("div_assign", "i32", <<rhs>>, r)

IntegerAddU32 ==
    /\ kind = "int"
    /\ pc = "live"
    /\ \E rhs \in U32 : \E r \in Integer_add_u32(attr, rhs) : Return("add", "u32", <<rhs>>, r)

IntegerSubU32 ==
    /\ kind = "int"
    /\ pc = "live"
    /\ \E rhs \in U32 : \E r \in Integer_sub_u32(attr, rhs) : Return("sub", "u32", <<rhs>>, r)

IntegerMulU32 ==
    /\ kind = "int"
    /\ pc = "live"
    /\ \E rhs \in U32 : \E r \in Integer_mul_u32(attr, rhs) : Return("mul", "u32", <<rhs>>, r)

IntegerDivU32 ==
    /\ kind = "int"
    /\ pc = "live"
    /\ \E rhs \in U32 : \E r \in Integer_div_u32(attr, rhs) : Return("div", "u32", <<rhs>>, r)

\* ------------------------------------------------------------- specification
IntegerCurrentPercentage ==
    /\ kind = "int"
    /\ pc = "live"
    /\ \E o \in Integer_current_percentage(attr) :
        Observe("current_percentage", IF o.panic THEN Panicked(attr) ELSE Ok(attr),
                IF o.panic THEN NoRet ELSE o.v)

IntegerDisplay ==
    /\ kind = "int"
    /\ pc = "live"
    /\ \E o \in Integer_display(attr) :
        Observe("display", IF o.panic THEN Panicked(attr) ELSE Ok(attr),
                IF o.panic THEN NoRet ELSE o.v)

IntegerTryIntoU32 ==
    /\ kind = "int"
    /\ pc = "live"
    /\ LET c == Integer_try_from_u32(attr) IN Observe("try_into_u32", c.r, c.v)

\* the attributes another IntegerAttribute may be: new over the extreme bounds
IntOthers ==
    {Integer_new(mn, mx, c).attr : mn \in {I32_MIN, 0}, mx \in {0, I32_MAX}, c \in I32}

IntegerEq ==
    /\ kind = "int"
    /\ pc = "live"
    /\ \E other \in IntOthers :
        ObserveWith("eq", <<other>>, Ok(attr), Integer_eq(attr, other))

IntegerHash ==
    /\ kind = "int"
    /\ pc = "live"
    /\ Observe("hash", Ok(attr), Integer_hash(attr))

Next ==
    \/ DecimalDefault
    \/ DecimalNew
    \/ DecimalAsDefined
    \/ DecimalWithMinMaxAndCurrent
    \/ DecimalWithMinAndMax
    \/ DecimalSetMin
    \/ DecimalSetMax
    \/ DecimalSetMinMax
    \/ DecimalSetCurrent
    \/ DecimalSetValue
    \/ DecimalAdd
    \/ DecimalAddAssign
    \/ DecimalSub
    \/ DecimalSubAssign
    \/ DecimalMul
    \/ DecimalMulAssign
    \/ DecimalDiv
    \/ DecimalDivAssign
    \/ DecimalRem
    \/ DecimalRemAssign
    \/ DecimalNeg
    \/ DecimalCurrentPercentage
    \/ DecimalDisplay
    \/ DecimalEq
    \/ DecimalHash
    \/ DecimalPartialCmp
    \/ IntegerDefault
    \/ IntegerNew
    \/ IntegerSetMin
    \/ IntegerSetMax
    \/ IntegerSetCurrent
    \/ IntegerSetCurrentValue
    \/ IntegerSetMaxValue
    \/ IntegerSetMinValue
    \/ IntegerAddI32
    \/ IntegerAddAssignI32
    \/ IntegerSubI32
    \/ IntegerSubAssignI32
    \/ IntegerMulI32
    \/ IntegerMulAssignI32
    \/ IntegerDivI32
    \/ IntegerDivAssignI32
    \/ IntegerAddU32
    \/ IntegerSubU32
    \/ IntegerMulU32
    \/ IntegerDivU32
    \/ IntegerCurrentPercentage
    \/ IntegerDisplay
    \/ IntegerTryIntoU32
    \/ IntegerEq
    \/ IntegerHash
    \/ Rebind
    \/ Continue

Spec == Init /\ [][Next]_vars

\* ------------------------------------------------------------------ properties
DecInBounds(a) == FLe(a.min, a.current) /\ FLe(a.current, a.max)
IntInBounds(a) == a.min <= a.current /\ a.current <= a.max

\* a call has come back (returned or panicked) and last describes it
Came == pc \in {"called", "rejected", "panicked"}

\* C1: for DecimalAttribute, after any constructor and after every later setter or
\* arithmetic operator, min <= current <= max holds (of the attribute held and of
\* the attribute a call returns).
C1_DecimalCurrentInBounds ==
    (kind = "dec" /\ pc \in {"called", "live"})
        => DecInBounds(attr) /\ DecInBounds(last.out)

\* C2: for IntegerAttribute, from default() or a successful new(min, max, current),
\* after every setter and every + - * / operator (i32 and u32 operands) whose call
\* completes, min <= current <= max holds.
C2_IntegerCurrentInBounds ==
    (kind = "int" /\ pc \in {"called", "live"})
        => IntInBounds(attr) /\ IntInBounds(last.out)

\* C2 witness: a multiplication whose exact product leaves the i32 range completed
\* (the build without overflow checks) and its wrapped product was clamped.
C2_Witness ==
    /\ kind = "int" /\ pc = "called"
    /\ last.op \in {"mul", "mul_assign"} /\ last.ty = "i32"
    /\ ~InI32(last.pre.current * last.args[1])
    /\ last.status = "ok"
    /\ last.pre.min < last.pre.max

\* C3: DecimalAttribute::new(value) never fails, for negative values too, and leaves
\* min <= max; min <= max keeps holding after set_min, set_max and set_min_max,
\* succeed or fail.
C3_DecimalNewMinLeMax ==
    (kind = "dec" /\ Came /\ last.op \in {"new", "set_min", "set_max", "set_min_max"})
        => /\ last.op = "new" => last.status = "ok"
           /\ FLe(attr.min, attr.max)

\* the (value, min, max) a validated constructor was called with
CtorOps == IF kind = "dec"
           THEN {"as_defined", "with_min_max_and_current", "with_min_and_max"}
           ELSE {"new"}
CtorValue == IF kind = "int" THEN last.args[3]
             ELSE IF last.op = "with_min_and_max" THEN last.args[2] ELSE last.args[1]
CtorMin == IF kind = "int" \/ last.op = "with_min_and_max" THEN last.args[1] ELSE last.args[2]
CtorMax == IF kind = "int" \/ last.op = "with_min_and_max" THEN last.args[2] ELSE last.args[3]

\* C4: the validated constructors fail if and only if min > max, with the
\* MinGreaterThanMax-kind error carrying (min, max); on success min and max are
\* stored as given and current = clamp(value, min, max).
C4_ValidatedConstructors ==
    (Came /\ last.op \in CtorOps) =>
        IF kind = "dec"
        THEN /\ (last.status = "err") <=> FGt(CtorMin, CtorMax)
             /\ last.status \in {"ok", "err"}
             /\ last.status = "err" =>
                    last.err = <<"DecimalMinGreaterThanMax", CtorMin, CtorMax>>
             /\ last.status = "ok" =>
                    attr = Attr(FClamp(CtorValue, CtorMin, CtorMax), CtorMin, CtorMax)
        ELSE /\ (last.status = "err") <=> (CtorMin > CtorMax)
             /\ last.status \in {"ok", "err"}
             /\ last.status = "err" => last.err = <<"MinGreaterThanMax", CtorMin, CtorMax>>
             /\ last.status = "ok" =>
                    attr = Attr(IClamp(CtorValue, CtorMin, CtorMax), CtorMin, CtorMax)

BoundsSetters == IF kind = "dec"
                 THEN {"set_min", "set_max", "set_min_max"}
                 ELSE {"set_min_value", "set_max_value"}

\* C5: whenever a bounds setter returns an error (Decimal set_min, set_max,
\* set_min_max; Integer set_min_value, set_max_value), current, min and max are
\* exactly what they were before the call.
C5_FailedSetterChangesNothing ==
    (pc = "called" /\ last.op \in BoundsSetters /\ last.status = "err")
        => attr = last.pre

\* C5 witness: set_min_max was refused on an attribute whose bounds differ from
\* both arguments.
C5_Witness ==
    /\ kind = "dec" /\ pc = "called"
    /\ last.op = "set_min_max" /\ last.status = "err"
    /\ last.args[1] # last.pre.min /\ last.args[2] # last.pre.max

\* C6: Decimal set_min(m) and Integer set_min_value(m) fail if and only if m > max,
\* with an error carrying (m, max); on success min = m, max is unchanged and
\* current = max(old current, m), so lowering min leaves current unchanged.
C6_SetMin ==
    (Came /\ last.op = (IF kind = "dec" THEN "set_min" ELSE "set_min_value")) =>
        LET m == last.args[1]
            p == last.pre
        IN  IF kind = "dec"
            THEN /\ (last.status = "err") <=> FGt(m, p.max)
                 /\ last.status \in {"ok", "err"}
                 /\ last.status = "err" =>
                        last.err = <<"DecimalMinGreaterThanMax", m, p.max>>
                 /\ last.status = "ok" =>
                        attr = Attr(IF FLt(p.current, m) THEN m ELSE p.current, m, p.max)
                 /\ (last.status = "ok" /\ FLt(m, p.min)) => attr.current = p.current
            ELSE /\ (last.status = "err") <=> (m > p.max)
                 /\ last.status \in {"ok", "err"}
                 /\ last.status = "err" => last.err = <<"MinGreaterThanMax", m, p.max>>
                 /\ last.status = "ok" =>
                        attr = Attr(IF p.current < m THEN m ELSE p.current, m, p.max)
                 /\ (last.status = "ok" /\ m < p.min) => attr.current = p.current

\* C7: Decimal set_max(m) and Integer set_max_value(m) fail if and only if m < min,
\* with the MaxLessThanMin-kind error carrying (m, min); on success max = m, min is
\* unchanged and current = min(old current, m), so raising max leaves current
\* unchanged.
C7_SetMax ==
    (Came /\ last.op = (IF kind = "dec" THEN "set_max" ELSE "set_max_value")) =>
        LET m == last.args[1]
            p == last.pre
        IN  IF kind = "dec"
            THEN /\ (last.status = "err") <=> FLt(m, p.min)
                 /\ last.status \in {"ok", "err"}
                 /\ last.status = "err" =>
                        last.err = <<"DecimalMaxLessThanMin", m, p.min>>
                 /\ last.status = "ok" =>
                        attr = Attr(IF FLt(m, p.current) THEN m ELSE p.current, p.min, m)
                 /\ (last.status = "ok" /\ FGt(m, p.max)) => attr.current = p.current
            ELSE /\ (last.status = "err") <=> (m < p.min)
                 /\ last.status \in {"ok", "err"}
                 /\ last.status = "err" => last.err = <<"MaxLessThanMin", m, p.min>>
                 /\ last.status = "ok" =>
                        attr = Attr(IF m < p.current THEN m ELSE p.current, p.min, m)
                 /\ (last.status = "ok" /\ m > p.max) => attr.current = p.current

\* C8: Decimal set_min_max(a, b) succeeds for every a <= b whatever the previous
\* bounds, and afterwards min = a, max = b and current = clamp(old current, a, b).
C8_SetMinMax ==
    (kind = "dec" /\ Came /\ last.op = "set_min_max"
        /\ FLe(last.args[1], last.args[2])) =>
        /\ last.status = "ok"
        /\ attr = Attr(FClamp(last.pre.current, last.args[1], last.args[2]),
                       last.args[1], last.args[2])

\* C8 witness: set_min_max succeeded with the new min above the old max, where
\* set_min alone is refused, and current had to move.
C8_Witness ==
    /\ kind = "dec" /\ pc = "called"
    /\ last.op = "set_min_max" /\ last.status = "ok"
    /\ DecInBounds(last.pre)
    /\ FGt(last.args[1], last.pre.max)
    /\ FLt(last.args[1], last.args[2])

SetCurrentOps == IF kind = "dec"
                 THEN {"set_current", "set_value"}
                 ELSE {"set_current", "set_current_value"}

\* C9: set_current / set_value (Decimal) and set_current / set_current_value
\* (Integer) never fail, for any v and any attribute the public constructors and
\* setters produce; afterwards current = clamp(v, min, max), min and max unchanged.
C9_SetCurrentNeverFails ==
    (Came /\ last.op \in SetCurrentOps) =>
        LET v == last.args[1]
            p == last.pre
        IN  /\ last.status = "ok"
            /\ last.out = Attr(IF kind = "dec" THEN FClamp(v, p.min, p.max)
                               ELSE IClamp(v, p.min, p.max), p.min, p.max)

\* set_current (or its alias) called again, on attribute a
SetCurrentAgain(op, a, v) ==
    IF kind = "dec"
    THEN IF op = "set_value" THEN Decimal_set_value(a, v) ELSE Decimal_set_current(a, v)
    ELSE IF op = "set_current_value" THEN Integer_set_current_value(a, v)
         ELSE Integer_set_current(a, v)

\* C10: setting the current value is idempotent: after set_current(x), calling
\* set_current with the value just stored leaves the attribute exactly as after
\* the first call.
C10_SetCurrentIdempotent ==
    (pc = "called" /\ last.op \in SetCurrentOps /\ last.status = "ok") =>
        SetCurrentAgain(last.op, last.out, last.out.current) = Ok(last.out)

\* C10 witness: a decimal set_current(x) with x above max stored the clamped value.
C10_Witness ==
    /\ kind = "dec" /\ pc = "called"
    /\ last.op = "set_current" /\ last.status = "ok"
    /\ FGt(last.args[1], last.pre.max)
    /\ FLt(last.pre.min, last.pre.max)
    /\ last.out.current # last.pre.current

\* the binary operators of DecimalAttribute, by-value and assigning
DecArithOps == {"add", "sub", "mul", "div", "rem"}
DecAssignOps == {"add_assign", "sub_assign", "mul_assign", "div_assign", "rem_assign"}

\* old current OP x, as f64 arithmetic computes it
DecArithApply(op, c, x) ==
    CASE op \in {"add", "add_assign"} -> FAdd(c, x)
      [] op \in {"sub", "sub_assign"} -> FSub(c, x)
      [] op \in {"mul", "mul_assign"} -> FMul(c, x)
      [] op \in {"div", "div_assign"} -> FDiv(c, x)
      [] op \in {"rem", "rem_assign"} -> FRem(c, x)

\* the assigning form of a by-value operator, applied to a copy a of the attribute
DecAssignForm(op, a, x) ==
    CASE op = "add" -> Decimal_add_assign(a, x)
      [] op = "sub" -> Decimal_sub_assign(a, x)
      [] op = "mul" -> Decimal_mul_assign(a, x)
      [] op = "div" -> Decimal_div_assign(a, x)
      [] op = "rem" -> Decimal_rem_assign(a, x)

\* C11: for DecimalAttribute and any operand x (x # 0 for / and %), each of
\* + - * / % yields current = clamp(old current OP x, min, max) with min and max
\* unchanged; the by-value form leaves the original attribute untouched and
\* produces the attribute the assigning form produces on a copy.
C11_DecimalArithmetic ==
    (Came /\ kind = "dec" /\ last.op \in DecArithOps \cup DecAssignOps) =>
        LET p == last.pre
            x == DecOperand(last.ty, last.args[1])
            want == Attr(FClamp(DecArithApply(last.op, p.current, x), p.min, p.max),
                         p.min, p.max)
        IN  ~(last.op \in {"div", "div_assign", "rem", "rem_assign"} /\ FIsZero(x)) =>
                /\ last.status = "ok"
                /\ last.out = want
                /\ last.op \in DecArithOps =>
                        attr = p /\ DecAssignForm(last.op, p, x) = Ok(last.out)
                /\ last.op \in DecAssignOps => attr = want

\* the rhs of the call just made is zero
ZeroOperand ==
    IF kind = "dec" THEN FIsZero(DecOperand(last.ty, last.args[1])) ELSE last.args[1] = 0

\* C12: dividing or taking the remainder by zero leaves current, min and max
\* unchanged, for every attribute kind and operand kind (Decimal / and % with an
\* f64 or f32 zero, Integer / with an i32 or u32 zero), by-value and assigning.
C12_ZeroDivisorNoOp ==
    (Came /\ last.op \in {"div", "div_assign", "rem", "rem_assign"} /\ ZeroOperand) =>
        /\ last.status = "ok"
        /\ last.out = last.pre
        /\ attr = last.pre

\* the exact (unbounded) result of an i32 addition or subtraction just called
ExactAddSub == IF last.op \in {"add", "add_assign"}
               THEN last.pre.current + last.args[1]
               ELSE last.pre.current - last.args[1]

\* C13: for IntegerAttribute with an i32 operand, when current + rhs overflows
\* the i32 range the resulting current is max, and when current - rhs overflows
\* it is min; the operation neither wraps nor panics (+, -, += and -=).
C13_I32AddSubSaturate ==
    (Came /\ kind = "int" /\ last.ty = "i32"
          /\ last.op \in {"add", "add_assign", "sub", "sub_assign"}
          /\ ~InI32(ExactAddSub)) =>
        LET p == last.pre
            want == Attr(IF last.op \in {"add", "add_assign"} THEN p.max ELSE p.min,
                         p.min, p.max)
        IN  /\ last.status = "ok"
            /\ last.out = want
            /\ attr = IF last.byval THEN p ELSE want

\* C13 witness: an addition that overflowed i32 moved current up to max.
C13_Witness ==
    /\ kind = "int" /\ pc = "called"
    /\ last.ty = "i32" /\ last.op = "add"
    /\ ExactAddSub > I32_MAX
    /\ last.out.current = last.pre.max
    /\ last.out.current # last.pre.current

\* the arithmetic operators of IntegerAttribute, for i32 and u32 operands
IntArithOps == {"add", "add_assign", "sub", "sub_assign",
                "mul", "mul_assign", "div", "div_assign"}

\* C14: every IntegerAttribute arithmetic operator completes with a clamped
\* result for every operand value and never fails: Mul<i32> / MulAssign<i32> when
\* current * rhs leaves the i32 range, Div<i32> / DivAssign<i32> when rhs = 0 or
\* current = i32::MIN and rhs = -1, Sub<u32> when current - rhs falls below i32::MIN.
C14_IntegerOperatorsComplete ==
    (Came /\ kind = "int" /\ last.op \in IntArithOps) =>
        /\ last.status = "ok"
        /\ IntInBounds(last.out)
        /\ last.out.min = last.pre.min
        /\ last.out.max = last.pre.max

\* C15: for IntegerAttribute and a u32 operand r > i32::MAX: attr + r yields
\* current = max; attr - r yields what subtracting i32::MAX yields (min when that
\* overflows, then clamped); attr * r yields max if current > 0, min if
\* current < 0 and the unchanged current if current = 0. Bounds are unchanged.
C15_U32AboveI32Max ==
    (Came /\ kind = "int" /\ last.ty = "u32" /\ last.args[1] > I32_MAX
          /\ last.op \in {"add", "sub", "mul"}) =>
        LET p == last.pre
            c == p.current
            want == CASE last.op = "add" -> p.max
                      [] last.op = "sub" ->
                            IClamp(IF InI32(c - I32_MAX) THEN c - I32_MAX ELSE p.min,
                                   p.min, p.max)
                      [] last.op = "mul" ->
                            IF c > 0 THEN p.max ELSE IF c < 0 THEN p.min ELSE c
        IN  /\ last.status = "ok"
            /\ last.out = Attr(want, p.min, p.max)
            /\ attr = p
            /\ last.op = "sub" => Integer_sub_i32(p, I32_MAX) = {Ok(last.out)}

\* C15 witness: subtracting a u32 above i32::MAX overflowed and left current at min.
C15_Witness ==
    /\ kind = "int" /\ pc = "called"
    /\ last.ty = "u32" /\ last.op = "sub" /\ last.args[1] > I32_MAX
    /\ ~InI32(last.pre.current - I32_MAX)
    /\ last.out.current = last.pre.min
    /\ last.out.current # last.pre.current

\* the i32 quotient c / r for r > 0: the q with c = q * r + m, |m| < r, m of c's sign
Quotient(c, r) == CHOOSE q \in I32 : Abs(c - q * r) < r /\ (c - q * r) * c >= 0

C17_Negation ==
    (Came /\ kind = "dec" /\ last.op = "neg") =>
        LET p == last.pre
        IN  /\ last.status = "ok"
            /\ last.out = Attr(FClamp(FNeg(p.current), p.min, p.max), p.min, p.max)
            /\ attr = p
            /\ DecInBounds(last.out)
            /\ (FLe(FZero, p.min) \/ FLe(p.max, FZero)) =>
                    last.out.current \in {p.min, p.max}

\* C18: DecimalAttribute::current_percentage() equals (current - min) / (max - min)
\* for every bound configuration (min negative, zero or positive) and returns 0
\* when max = min; bounds [-100, 100] with current 0 and bounds [50, 100] with
\* current 75 both give 0.5.
C18_DecimalPercentage ==
    /\ (Came /\ kind = "dec" /\ last.op = "current_percentage") =>
            LET p == last.pre
            IN  /\ last.status = "ok"
                /\ attr = p
                /\ IF p.max = p.min
                   THEN last.ret = FZero
                   ELSE FMul(last.ret, FSub(p.max, p.min)) = FSub(p.current, p.min)
    /\ Decimal_current_percentage(Attr(FInt(0), FInt(-100), FInt(100))) = Rat(1, 2)
    /\ Decimal_current_percentage(Attr(FInt(75), FInt(50), FInt(100))) = Rat(1, 2)

\* C18 witness: with min negative, a current halfway between the bounds reads as 0.5.
C18_Witness ==
    /\ kind = "dec" /\ pc = "called"
    /\ last.op = "current_percentage"
    /\ FLt(last.pre.min, FZero)
    /\ FLt(last.pre.min, last.pre.current)
    /\ FLt(last.pre.current, last.pre.max)
    /\ last.ret = Rat(1, 2)

\* C19: IntegerAttribute::current_percentage() equals (current - min) / (max - min)
\* for every bound configuration (min negative, zero or positive), and returns 0
\* instead of dividing by zero when max = min.
C19_IntegerPercentage ==
    (Came /\ kind = "int" /\ last.op = "current_percentage") =>
        LET p == last.pre
        IN  /\ last.status = "ok"
            /\ attr = p
            /\ last.ret = IF p.max = p.min
                          THEN F32Num(FZero)
                          ELSE F32Num(Rat(p.current - p.min, p.max - p.min))

\* an f32 times the integer k
F32Scale(v, k) == IF v[1] = "num" THEN F32Num(FMul(<<v[2], v[3]>>, FInt(k))) ELSE v

\* the rendering the text format prescribes for attribute p: current, then
\* current_percentage() * 100 with two decimals
Rendered(p, text) ==
    IF kind = "dec"
    THEN text = <<Fixed2(p.current),
                  Fixed2(FMul(Decimal_current_percentage(p), FInt(100)))>>
    ELSE \E o \in Integer_current_percentage(p) :
            /\ ~o.panic
            /\ text = <<<<"int", p.current>>, Fixed2F32(F32Scale(o.v, 100))>>

\* C20: the text rendering of an attribute shows the current value followed in
\* parentheses by current_percentage() * 100 with two decimals and a percent
\* sign, for DecimalAttribute and IntegerAttribute alike; an attribute at
\* current = max with min = 0 (below max) renders its percentage as 100.00%, and
\* new(20.0) minus 1.0 renders as "19.00 (95.00%)".
C20_TextRendering ==
    /\ (Came /\ last.op = "display") =>
            LET p == last.pre
            IN  /\ last.status = "ok"
                /\ attr = p
                /\ Rendered(p, last.ret)
                /\ (p.current = p.max /\ p.min = Default(kind).min /\ p.max # p.min) =>
                        last.ret[2] = <<"num", 10000>>
    /\ Decimal_display(Decimal_sub_assign(Decimal_new(FInt(20)).attr, FInt(1)).attr)
            = <<<<"num", 1900>>, <<"num", 9500>>>>

\* C21: converting an IntegerAttribute to u32 fails with ConversionError if and
\* only if current < 0, and otherwise returns exactly current; min and max play
\* no role, and no other operation of the library produces ConversionError.
C21_ConversionToU32 ==
    /\ (Came /\ kind = "int" /\ last.op = "try_into_u32") =>
            /\ last.status \in {"ok", "err"}
            /\ last.status = "err" <=> last.pre.current < 0
            /\ last.status = "err" => last.err[1] = "ConversionError"
            /\ last.status = "ok" => last.ret = last.pre.current
            /\ attr = last.pre
    /\ (Came /\ last.status = "err" /\ last.err[1] = "ConversionError") =>
            last.op = "try_into_u32"

\* C21 witness: an attribute with a negative current was refused, one bound being
\* non-negative.
C21_Witness ==
    /\ kind = "int" /\ pc = "called"
    /\ last.op = "try_into_u32" /\ last.status = "err"
    /\ last.pre.current < 0 /\ last.pre.max >= 0

\* C22: equality and ordering between two attributes are determined by their
\* current values alone: a == b iff a.current equals b.current, and a < b iff
\* a.current < b.current, whatever their min and max are.
C22_ComparedByCurrent ==
    /\ (Came /\ last.op = "eq") =>
            (last.ret <=> last.pre.current = last.args[1].current)
    /\ (Came /\ last.op = "partial_cmp") =>
            (last.ret = "Less" <=> FLt(last.pre.current, last.args[1].current))

\* the comparison just made, repeated against attribute o
CompareAgain(o) ==
    IF last.op = "partial_cmp" THEN Decimal_partial_cmp(last.pre, o)
    ELSE IF kind = "dec" THEN Decimal_eq(last.pre, o)
    ELSE Integer_eq(last.pre, o)

\* C22 (amended): equality and ordering between two attributes are determined by
\* their current values alone, whatever their min and max are: two
\* IntegerAttributes are equal iff their currents are equal, two
\* DecimalAttributes are equal iff their currents differ by less than
\* f64::EPSILON, and a < b iff a.current < b.current.
C22_ComparedByCurrentWithinEpsilon ==
    (Came /\ last.op \in {"eq", "partial_cmp"}) =>
        LET a == last.pre
            b == last.args[1]
        IN  /\ (kind = "int" /\ last.op = "eq") => (last.ret <=> a.current = b.current)
            /\ (kind = "dec" /\ last.op = "eq") =>
                    (last.ret <=> FLt(FAbs(FSub(a.current, b.current)), F64_EPSILON))
            /\ last.op = "partial_cmp" =>
                    (last.ret = "Less" <=> FLt(a.current, b.current))
            /\ \A o \in IF kind = "dec" THEN DecOthers ELSE IntOthers :
                    o.current = b.current => CompareAgain(o) = last.ret

\* C22 witness: two DecimalAttributes with different bounds and different
\* currents, less than EPSILON apart, compared equal.
C22_Witness ==
    /\ kind = "dec" /\ pc = "called"
    /\ last.op = "eq" /\ last.ret
    /\ last.pre.current # last.args[1].current
    /\ last.pre.min # last.args[1].min
    /\ last.pre.max # last.args[1].max

\* what hashing attribute a feeds to the hasher
HashInput(a) == IF kind = "dec" THEN Decimal_hash(a) ELSE Integer_hash(a)

\* C23: hashing an attribute feeds current, min and max into the hasher while
\* equality looks at current only, so attributes a and b with the same current
\* and different bounds are equal and yet their hash inputs differ: equality
\* does not imply equal hash input.
C23_HashFinerThanEquality ==
    /\ (Came /\ last.op = "hash") =>
            /\ Len(last.ret) = 3
            /\ \A o \in IF kind = "dec" THEN DecOthers ELSE IntOthers :
                    o # last.pre => HashInput(o) # last.ret
    /\ (Came /\ last.op = "eq"
              /\ last.pre.current = last.args[1].current
              /\ last.pre # last.args[1]) =>
            /\ last.ret
            /\ HashInput(last.pre) # HashInput(last.args[1])

\* C23 witness: two IntegerAttributes with the same current and different bounds
\* compared equal.
C23_Witness ==
    /\ kind = "int" /\ pc = "called"
    /\ last.op = "eq" /\ last.ret
    /\ last.pre.current = last.args[1].current
    /\ last.pre.min # last.args[1].min
    /\ HashInput(last.pre) # HashInput(last.args[1])

\* C24: the builder-style IntegerAttribute::set_max(m) called on
\* IntegerAttribute::default() succeeds and yields an attribute with max = m and
\* min = m (the doc example asserts max == 10 and min == 10 for m = 10).
C24_SetMaxOnDefault ==
    (kind = "int" /\ pc = "called" /\ last.op = "default") =>
        \A m \in I32 :
            LET r == Integer_set_max(attr, m)
            IN  r.status = "ok" /\ r.attr.max = m /\ r.attr.min = m

\* C25: the builder-style IntegerAttribute::set_min(m) returns MinGreaterThanMax
\* whenever m is greater than the attribute's maximum, for every attribute whose
\* maximum has been set (through new or set_max); max is raised to m only when
\* set_min is called before any maximum was set.
C25_SetMinAfterMaxSet ==
    /\ (kind = "int" /\ pc = "called" /\ last.status = "ok"
                     /\ last.op \in {"new", "set_max"}) =>
            \A m \in I32 :
                m > last.out.max =>
                    Integer_set_min(last.out, m) =
                        Err(last.out, <<"MinGreaterThanMax", m, last.out.max>>)
    /\ (kind = "int" /\ Came /\ last.op = "set_min" /\ last.status = "ok"
                     /\ last.out.max # last.pre.max) =>
            last.pre = Integer_default

\* C26: the builder-style IntegerAttribute::set_max(m), when it succeeds on an
\* attribute built by new(min, max, current), sets max = m, leaves min unchanged
\* and leaves current = min(old current, m): it only ever moves current
\* downward, so raising max never changes current.
C26_SetMaxAfterNew ==
    (kind = "int" /\ pc = "called" /\ last.op = "new" /\ last.status = "ok") =>
        \A m \in I32 :
            LET r == Integer_set_max(attr, m)
            IN  r.status = "ok" =>
                    r.attr = Attr(IF m < attr.current THEN m ELSE attr.current,
                                  attr.min, m)

\* C27: integer addition and subtraction are monotone in the operand's sign: for
\* an IntegerAttribute with min <= current <= max and any i32 r, the current of
\* attr + r is >= the old current when r >= 0 and <= it when r <= 0 (the reverse
\* for attr - r), also when the underlying i32 operation overflows.
C27_AddSubMonotone ==
    (Came /\ kind = "int" /\ last.ty = "i32"
          /\ last.op \in {"add", "add_assign", "sub", "sub_assign"}
          /\ IntInBounds(last.pre)) =>
        LET r == IF last.op \in {"add", "add_assign"} THEN last.args[1] ELSE -last.args[1]
            c == last.pre.current
        IN  /\ last.status = "ok"
            /\ r >= 0 => last.out.current >= c
            /\ r <= 0 => last.out.current <= c

\* C28: for every u32 operand r (r > i32::MAX included) and every
\* IntegerAttribute with min <= current <= max, attr + r has current =
\* clamp(current + r, min, max) and attr - r has current =
\* clamp(current - r, min, max), sum and difference taken over unbounded integers.
C28_AddSubU32Exact ==
    (Came /\ kind = "int" /\ last.ty = "u32" /\ last.op \in {"add", "sub"}
          /\ IntInBounds(last.pre)) =>
        LET p == last.pre
            x == IF last.op = "add" THEN p.current + last.args[1]
                 ELSE p.current - last.args[1]
        IN  /\ last.status = "ok"
            /\ last.out.current = IClamp(x, p.min, p.max)

\* C29: for every u32 operand r (r > i32::MAX and products that overflow i32
\* included) and every IntegerAttribute with min <= current <= max, attr * r has
\* current = clamp(current * r, min, max), the product taken over unbounded
\* integers.
C29_MulU32Exact ==
    (Came /\ kind = "int" /\ last.ty = "u32" /\ last.op = "mul"
          /\ IntInBounds(last.pre)) =>
        LET p == last.pre
        IN  /\ last.status = "ok"
            /\ last.out = Attr(IClamp(p.current * last.args[1], p.min, p.max), p.min, p.max)
            /\ attr = p

\* C29 witness: a negative current times a u32 whose product leaves i32 came out
\* at min, above the product.
C29_Witness ==
    /\ kind = "int" /\ pc = "called"
    /\ last.ty = "u32" /\ last.op = "mul"
    /\ last.args[1] <= I32_MAX
    /\ last.pre.current * last.args[1] < I32_MIN
    /\ last.out.current = last.pre.min
    /\ last.out.current # last.pre.current

\* C30: DecimalAttribute::as_defined (with its wrappers) and set_min_max never
\* return DecimalMaxLessThanMin: every rejected (min, max) pair is reported as
\* DecimalMinGreaterThanMax(min, max), and DecimalMaxLessThanMin is produced only
\* by set_max.
C30_MaxLessThanMinOnlyFromSetMax ==
    (kind = "dec" /\ Came) =>
        /\ (last.op \in CtorOps /\ FGt(CtorMin, CtorMax)) =>
                /\ last.status = "err"
                /\ last.err = <<"DecimalMinGreaterThanMax", CtorMin, CtorMax>>
        /\ (last.op = "set_min_max" /\ FGt(last.args[1], last.args[2])) =>
                /\ last.status = "err"
                /\ last.err = <<"DecimalMinGreaterThanMax", last.args[1], last.args[2]>>
        /\ (last.status = "err" /\ last.op \in CtorOps \cup {"set_min_max"}) =>
                last.err[1] = "DecimalMinGreaterThanMax"
        /\ (last.status = "err" /\ last.err[1] = "DecimalMaxLessThanMin") =>
                last.op = "set_max"

\* C30 witness: with_min_and_max, which goes through as_defined, rejected a pair
\* with min above max.
C30_Witness ==
    /\ kind = "dec" /\ pc = "rejected"
    /\ last.op = "with_min_and_max" /\ last.status = "err"
    /\ FGt(last.args[1], last.args[2])
    /\ last.err[1] = "DecimalMinGreaterThanMax"

====
